---- MODULE Spec2Model ----
(***************************************************************************)
(* Model of glr_streamlit_app.py: the placeholder-extraction-and-fill      *)
(* pipeline (extract_pdf_text, extract_placeholders, call_llm, mock_data,  *)
(* fill_template and the "Process" button handler).                        *)
(*                                                                         *)
(* Python str values are TLA+ strings; a .docx document is the sequence of *)
(* its paragraph texts; a Python value decoded from JSON is a tagged       *)
(* record (see PyNone .. PyDict).                                          *)
(***************************************************************************)
EXTENDS Integers, Sequences, FiniteSets, TLC

\* ------------------------------------------------------------------ bounds
\* longest paragraph of the templates enumerated for extract_placeholders
\* and fill_template
MaxParaLen == 5
\* how far beyond the cap the longest extracted text reaches
MaxOver == 2

\* --------------------------------------------------------- program constants
\* pdf_text[:6000]
TEXT_CAP == 6000

Min(a, b) == IF a < b THEN a ELSE b

\* ------------------------------------------------------------ str helpers
\* s[i:] / s[:n] with Python's clamping of out-of-range slice bounds
Drop(s, n) == SubSeq(s, Min(n, Len(s)) + 1, Len(s))
Take(s, n) == SubSeq(s, 1, Min(n, Len(s)))

\* s * n
RECURSIVE Rep(_, _)
Rep(s, n) ==
    IF n = 0 THEN ""
    ELSE IF n % 2 = 0 THEN LET h == Rep(s, n \div 2) IN h \o h
    ELSE s \o Rep(s, n - 1)

startswith(s, p) == Len(s) >= Len(p) /\ Take(s, Len(p)) = p
endswith(s, p) == Len(s) >= Len(p) /\ Drop(s, Len(s) - Len(p)) = p

\* sub in s
Contains(s, sub) ==
    \E i \in 1..(Len(s) - Len(sub) + 1) : SubSeq(s, i, i + Len(sub) - 1) = sub

\* s.replace(old, new), old non-empty: leftmost non-overlapping occurrences
RECURSIVE replace(_, _, _)
replace(s, old, new) ==
    IF Len(s) < Len(old) THEN s
    ELSE IF Take(s, Len(old)) = old
         THEN new \o replace(Drop(s, Len(old)), old, new)
         ELSE Take(s, 1) \o replace(Drop(s, 1), old, new)

\* the characters str.split() treats as separators, among those that occur
\* in the texts of the model
Whitespace == {" ", "\n", "\t"}

\* s.split(): the maximal runs of non-whitespace characters, as a set
\* (extract_placeholders only adds the words to a set)
split(s) ==
    { SubSeq(s, i, j) : <<i, j>> \in
        { p \in (1..Len(s)) \X (1..Len(s)) :
            /\ p[1] <= p[2]
            /\ \A k \in p[1]..p[2] : SubSeq(s, k, k) \notin Whitespace
            /\ (p[1] = 1 \/ SubSeq(s, p[1] - 1, p[1] - 1) \in Whitespace)
            /\ (p[2] = Len(s) \/ SubSeq(s, p[2] + 1, p[2] + 1) \in Whitespace) } }

\* s.lstrip(chars) / s.rstrip(chars) / s.strip(chars): chars is a SET of
\* characters, every leading / trailing member of it is removed
RECURSIVE lstrip(_, _)
lstrip(s, chars) ==
    IF Len(s) > 0 /\ Take(s, 1) \in chars THEN lstrip(Drop(s, 1), chars) ELSE s

RECURSIVE rstrip(_, _)
rstrip(s, chars) ==
    IF Len(s) > 0 /\ Drop(s, Len(s) - 1) \in chars
    THEN rstrip(Take(s, Len(s) - 1), chars) ELSE s

strip(s, chars) == rstrip(lstrip(s, chars), chars)

\* ---------------------------------------------------------- Python values
PyNone == [type |-> "NoneType", b |-> FALSE, n |-> 0, s |-> "", items |-> <<>>]
PyBool(v) == [type |-> "bool", b |-> v, n |-> 0, s |-> "", items |-> <<>>]
PyInt(v) == [type |-> "int", b |-> FALSE, n |-> v, s |-> "", items |-> <<>>]
PyStr(v) == [type |-> "str", b |-> FALSE, n |-> 0, s |-> v, items |-> <<>>]
\* items: the elements in order
PyList(v) == [type |-> "list", b |-> FALSE, n |-> 0, s |-> "", items |-> v]
\* items: the <<key, value>> entries in insertion order; keys are strs
PyDict(v) == [type |-> "dict", b |-> FALSE, n |-> 0, s |-> "", items |-> v]

\* bool(v), as used by `if not field_values`
Truthy(v) ==
    CASE v.type = "NoneType" -> FALSE
      [] v.type = "bool" -> v.b
      [] v.type = "int" -> v.n # 0
      [] v.type = "str" -> v.s # ""
      [] OTHER -> Len(v.items) > 0

Keys(d) == { d.items[i][1] : i \in 1..Len(d.items) }

\* ------------------------------------------------- extract_placeholders
\* the set built by the two loops over doc.paragraphs and para.text.split()
extract_placeholders(paras) ==
    { strip(w, {"[", "]"}) :
        w \in { x \in UNION { split(paras[i]) : i \in 1..Len(paras) } :
                  startswith(x, "[") /\ endswith(x, "]") } }

\* ----------------------------------------------------------- fill_template
\* the inner loop `for key, val in field_values.items()` on one paragraph;
\* exc is the exception that ends the loop ("none" when it runs through)
RECURSIVE fill_para(_, _)
fill_para(text, items) ==
    IF items = <<>> THEN [exc |-> "none", text |-> text]
    ELSE LET key == items[1][1]
             val == items[1][2]
             target == "[" \o key \o "]"
         IN  IF Contains(text, target)
             THEN IF val.type # "str"
                  THEN [exc |-> "TypeError", text |-> text]
                  ELSE fill_para(replace(text, target, val.s), Tail(items))
             ELSE fill_para(text, Tail(items))

\* the outer loop `for para in doc.paragraphs`; field_values.items() of a
\* value that is not a dict raises AttributeError in the first iteration
RECURSIVE fill_paras(_, _)
fill_paras(paras, field_values) ==
    IF paras = <<>> THEN [exc |-> "none", paras |-> <<>>]
    ELSE IF field_values.type # "dict"
         THEN [exc |-> "AttributeError", paras |-> paras]
         ELSE LET first == fill_para(paras[1], field_values.items)
              IN  IF first.exc # "none"
                  THEN [exc |-> first.exc, paras |-> paras]
                  ELSE LET rest == fill_paras(Tail(paras), field_values)
                       IN  [exc |-> rest.exc, paras |-> <<first.text>> \o rest.paras]

\* fill_template(docx_file, field_values): the saved document, or the
\* exception that escapes it
fill_template(paras, field_values) == fill_paras(paras, field_values)

\* --------------------------------------------------------------- clean_text
\* stands for a lone surrogate code point, the only kind of str character
\* that .encode("utf-8", "ignore") drops
Surrogate == "~"

\* the characters text[lo..hi] that survive the encoding
RECURSIVE clean_range(_, _, _)
clean_range(text, lo, hi) ==
    IF lo > hi THEN ""
    ELSE IF lo = hi
         THEN (IF SubSeq(text, lo, lo) = Surrogate THEN "" ELSE SubSeq(text, lo, lo))
         ELSE LET m == (lo + hi) \div 2
              IN  clean_range(text, lo, m) \o clean_range(text, m + 1, hi)

\* text.encode("utf-8", "ignore").decode("utf-8")
clean_text(text) == clean_range(text, 1, Len(text))

\* --------------------------------------------------------- extract_pdf_text
\* an uploaded pdf: ok = fitz.open can parse it; pages = page.get_text() of
\* its pages in physical order
PdfFile(pages) == [ok |-> TRUE, pages |-> pages]
CorruptPdf == [ok |-> FALSE, pages |-> <<>>]

RECURSIVE JoinPages(_)
JoinPages(pages) ==
    IF pages = <<>> THEN "" ELSE pages[1] \o JoinPages(Tail(pages))

\* combined_text after the loop over uploaded_pdfs, or the exception of
\* fitz.open, which nothing catches
RECURSIVE combine_pdfs(_)
combine_pdfs(files) ==
    IF files = <<>> THEN [exc |-> "none", text |-> ""]
    ELSE IF ~files[1].ok THEN [exc |-> "FileDataError", text |-> ""]
    ELSE LET rest == combine_pdfs(Tail(files))
         IN  [exc |-> rest.exc,
              text |-> IF rest.exc = "none"
                       THEN JoinPages(files[1].pages) \o rest.text ELSE ""]

extract_pdf_text(uploaded_pdfs) ==
    LET c == combine_pdfs(uploaded_pdfs)
    IN  [exc |-> c.exc, text |-> clean_text(c.text)]

\* ------------------------------------------------------------------ call_llm
\* str(placeholders) of a list of strs (names without quotes or backslashes)
RECURSIVE JoinReprs(_)
JoinReprs(names) ==
    IF names = <<>> THEN ""
    ELSE IF Len(names) = 1 THEN "'" \o names[1] \o "'"
    ELSE "'" \o names[1] \o "', " \o JoinReprs(Tail(names))

list_repr(names) == "[" \o JoinReprs(names) \o "]"

\* the three literal pieces of the f-string
PromptHead ==
    "\nYou are an insurance claim assistant. Extract values for the following placeholders:\n\n"
PromptMid == "\n\nPDF Text:\n\"\"\"\n"
PromptTail ==
    "\n\"\"\"\n\nReturn ONLY valid JSON. Example:\n{\n  \"DATE_LOSS\": \"2024-11-13\",\n  \"INSURED_NAME\": \"Richard Daly\",\n  \"MORTGAGE_CO\": \"Alacrity Mortgage\",\n  ...\n}\n"

\* the slice off by one: pdf_text[:6001]
truncate_off_by_one(pdf_text) == Take(pdf_text, TEXT_CAP + 1)

\* pdf_text[:6000]
truncate(pdf_text) == Take(pdf_text, TEXT_CAP)

build_prompt(pdf_text, placeholders) ==
    PromptHead \o list_repr(placeholders) \o PromptMid
        \o truncate(pdf_text) \o PromptTail

\* body = {"model": ..., "messages": [{"role": "user", "content": prompt}]}
request_body(prompt) ==
    [model |-> "mistralai/mixtral-8x7b", role |-> "user", content |-> prompt]

\* what the completion service does with one POST: transport = "ok" or the
\* exception requests.post raises; status = res.status_code; is_json = whether
\* res.json() can decode the body; json = the decoded body
Response(transport, status, is_json, json) ==
    [transport |-> transport, status |-> status, is_json |-> is_json, json |-> json]

\* an evaluation inside the try block: the value, or the exception raised
Ok(v) == [exc |-> "none", val |-> v]
Raise(e) == [exc |-> e, val |-> PyNone]

\* v[key] for a str key
getitem_key(v, key) ==
    IF v.type = "dict"
    THEN IF key \in Keys(v)
         THEN Ok(v.items[CHOOSE i \in 1..Len(v.items) : v.items[i][1] = key][2])
         ELSE Raise("KeyError")
    ELSE Raise("TypeError")

\* v[0]
getitem_0(v) ==
    CASE v.type = "list" ->
            IF Len(v.items) > 0 THEN Ok(v.items[1]) ELSE Raise("IndexError")
      [] v.type = "str" ->
            IF Len(v.s) > 0 THEN Ok(PyStr(Take(v.s, 1))) ELSE Raise("IndexError")
      [] v.type = "dict" -> Raise("KeyError")
      [] OTHER -> Raise("TypeError")

\* r is the result of the expression so far; f(v) the next subscript
Then(r, next) == IF r.exc # "none" THEN r ELSE next

\* data["choices"][0]["message"]["content"]
raw_output_of(data) ==
    LET r1 == getitem_key(data, "choices")
        r2 == Then(r1, getitem_0(r1.val))
        r3 == Then(r2, getitem_key(r2.val, "message"))
    IN  Then(r3, getitem_key(r3.val, "content"))

\* json.loads(raw_output) on the completion contents the model enumerates
json_loads(raw) ==
    IF raw.type # "str" THEN Raise("TypeError")
    ELSE CASE raw.s = "null" -> Ok(PyNone)
           [] raw.s = "true" -> Ok(PyBool(TRUE))
           [] raw.s = "0" -> Ok(PyInt(0))
           [] raw.s = "7" -> Ok(PyInt(7))
           [] raw.s = "\"x\"" -> Ok(PyStr("x"))
           [] raw.s = "[]" -> Ok(PyList(<<>>))
           [] raw.s = "[1]" -> Ok(PyList(<<PyInt(1)>>))
           [] raw.s = "{}" -> Ok(PyDict(<<>>))
           [] raw.s = "{\"A\": \"x\"}" -> Ok(PyDict(<< <<"A", PyStr("x")>> >>))
           [] raw.s = "{\"INSURED_NAME\": \"Jane Doe\", \"DATE_LOSS\": \"2024-01-01\"}" ->
                Ok(PyDict(<< <<"INSURED_NAME", PyStr("Jane Doe")>>,
                             <<"DATE_LOSS", PyStr("2024-01-01")>> >>))
           [] raw.s = "{\"A\": \"[B]\", \"B\": \"y\"}" ->
                Ok(PyDict(<< <<"A", PyStr("[B]")>>, <<"B", PyStr("y")>> >>))
           [] raw.s = "{\"A\": 1}" -> Ok(PyDict(<< <<"A", PyInt(1)>> >>))
           [] raw.s = "{\"A\": null}" -> Ok(PyDict(<< <<"A", PyNone>> >>))
           [] raw.s = "{\"A\": {\"B\": \"x\"}}" ->
                Ok(PyDict(<< <<"A", PyDict(<< <<"B", PyStr("x")>> >>)>> >>))
           [] raw.s = "{\"ZIP\": 78265}" -> Ok(PyDict(<< <<"ZIP", PyInt(78265)>> >>))
           [] OTHER -> Raise("JSONDecodeError")

\* the statements of the try block after the body is encoded
try_block(resp) ==
    IF resp.transport # "ok" THEN Raise(resp.transport)
    ELSE IF resp.status >= 400 /\ resp.status < 600 THEN Raise("HTTPError")
    ELSE IF ~resp.is_json THEN Raise("JSONDecodeError")
    ELSE LET raw == raw_output_of(resp.json)
         IN  Then(raw, json_loads(raw.val))

\* exception classes the try block can raise; all derive from Exception
\* (requests' ConnectionError and HTTPError via RequestException, json's
\* JSONDecodeError via ValueError)
ExceptionSubclasses ==
    {"ConnectionError", "Timeout", "HTTPError", "JSONDecodeError",
     "KeyError", "IndexError", "TypeError"}

\* only the first except clause, without the `except Exception` after it
except_clause_http_only(exc) == IF exc = "HTTPError" THEN "HTTPError" ELSE ""

\* the except clause that handles exc: `except requests.exceptions.HTTPError`
\* first, then `except Exception`; "" when neither matches
except_clause(exc) ==
    IF exc = "HTTPError" THEN "HTTPError"
    ELSE IF exc \in ExceptionSubclasses THEN "Exception"
    ELSE ""

\* call_llm with a second POST after a transport failure
call_llm_retry(pdf_text, placeholders, resp) ==
    LET t == try_block(resp)
        clause == except_clause(t.exc)
    IN  [sent |-> request_body(build_prompt(pdf_text, placeholders)),
         posts |-> IF t.exc \in {"ConnectionError", "Timeout"} THEN 2 ELSE 1,
         exc |-> IF t.exc = "none" \/ clause # "" THEN "none" ELSE t.exc,
         ret |-> IF t.exc = "none" THEN t.val ELSE PyDict(<<>>),
         ui |-> IF t.exc = "none" THEN <<>>
                ELSE IF clause = "HTTPError" THEN <<"error: HTTP error">>
                ELSE <<"error: LLM call failed">>]

\* call_llm's outcome for one behaviour of the service: the body sent, the
\* number of POSTs issued, the returned value, the exception that escapes,
\* and the st.error message shown. Both except clauses fall through to
\* `return {}`.
call_llm(pdf_text, placeholders, resp) ==
    LET t == try_block(resp)
        clause == except_clause(t.exc)
    IN  [sent |-> request_body(build_prompt(pdf_text, placeholders)),
         posts |-> 1,
         exc |-> IF t.exc = "none" \/ clause # "" THEN "none" ELSE t.exc,
         ret |-> IF t.exc = "none" THEN t.val ELSE PyDict(<<>>),
         ui |-> IF t.exc = "none" THEN <<>>
                ELSE IF clause = "HTTPError" THEN <<"error: HTTP error">>
                ELSE IF clause = "Exception" THEN <<"error: LLM call failed">>
                ELSE <<>>]

\* ----------------------------------------------------------------- mock_data
mock_data ==
    PyDict(<< <<"DATE_LOSS", PyStr("2024-11-13")>>,
              <<"INSURED_NAME", PyStr("Richard Daly")>>,
              <<"MORTGAGE_CO", PyStr("Alacrity")>>,
              <<"INSURED_H_STREET", PyStr("123 Storm Ln")>>,
              <<"INSURED_H_CITY", PyStr("San Antonio")>>,
              <<"INSURED_H_STATE", PyStr("TX")>>,
              <<"INSURED_H_ZIP", PyStr("78265")>>,
              <<"DATE_INSPECTED", PyStr("2024-11-14")>>,
              <<"TOL_CODE", PyStr("wind")>>,
              <<"DATE_RECEIVED", PyStr("2024-11-15")>>,
              <<"MORTGAGEE", PyStr("Alacrity")>> >>)

\* the fallback used as defaults under the returned mapping:
\* {**mock_data(), **field_values}
select_field_values_merged(ret) ==
    IF ~Truthy(ret) THEN mock_data
    ELSE IF ret.type = "dict" THEN PyDict(mock_data.items \o ret.items)
    ELSE ret

\* `if not field_values: field_values = mock_data()`
select_field_values(ret) == IF ~Truthy(ret) THEN mock_data ELSE ret

\* ------------------------------------------------------ enumerated inputs
\* an uploaded template: present = a file was uploaded; ok = Document() can
\* open it; paras = the texts of doc.paragraphs
NoTemplate == [present |-> FALSE, ok |-> FALSE, paras |-> <<>>]
CorruptTemplate == [present |-> TRUE, ok |-> FALSE, paras |-> <<>>]
Template(paras) == [present |-> TRUE, ok |-> TRUE, paras |-> paras]

TemplateUploads ==
    { NoTemplate, CorruptTemplate,
      Template(<<>>),
      Template(<<"No fields here.">>),
      Template(<<"Insured: [INSURED_NAME]", "Loss date: [DATE_LOSS]">>),
      Template(<<"[A] [B]", "[A]">>),
      Template(<<"[UNKNOWN_FIELD] [ZIP]">>) }

PdfUploads ==
    { <<>>,
      <<CorruptPdf>>,
      <<PdfFile(<<"Insured Jane Doe">>), CorruptPdf>>,
      <<PdfFile(<<"Insured Jane Doe, ", "loss 2024-01-01">>)>>,
      <<PdfFile(<<"a~b">>), PdfFile(<<>>)>> }
    \cup { <<PdfFile(<<Rep("a", TEXT_CAP - 1)>>), PdfFile(<<Rep("b", k)>>)>> :
             k \in 0..MaxOver }

\* a response body of the shape the service documents, with content c
Completion(c) ==
    PyDict(<< <<"choices",
                PyList(<< PyDict(<< <<"message",
                    PyDict(<< <<"role", PyStr("assistant")>>,
                              <<"content", c>> >>)>> >>) >>)>> >>)

Contents ==
    { "", "Sure! Here is the JSON you asked for", "null", "true", "0", "7",
      "\"x\"", "[]", "[1]", "{}", "{\"A\": \"x\"}",
      "{\"INSURED_NAME\": \"Jane Doe\", \"DATE_LOSS\": \"2024-01-01\"}",
      "{\"A\": \"[B]\", \"B\": \"y\"}", "{\"A\": 1}", "{\"A\": null}",
      "{\"A\": {\"B\": \"x\"}}", "{\"ZIP\": 78265}" }

Responses ==
    { Response("ConnectionError", 0, FALSE, PyNone),
      Response("Timeout", 0, FALSE, PyNone),
      Response("ok", 401, TRUE, PyDict(<< <<"error", PyStr("No auth")>> >>)),
      Response("ok", 500, FALSE, PyNone),
      Response("ok", 200, FALSE, PyNone),
      Response("ok", 200, TRUE, PyDict(<< <<"error", PyStr("overloaded")>> >>)),
      Response("ok", 200, TRUE, PyDict(<< <<"choices", PyList(<<>>)>> >>)),
      Response("ok", 200, TRUE, PyDict(<< <<"choices", PyList(<<PyDict(<<>>)>>)>> >>)),
      Response("ok", 200, TRUE,
               PyDict(<< <<"choices", PyList(<<PyDict(<<
                   <<"message", PyDict(<< <<"role", PyStr("assistant")>> >>)>> >>)>>)>> >>)),
      Response("ok", 200, TRUE, PyList(<<>>)),
      Response("ok", 200, TRUE, Completion(PyNone)) }
    \cup { Response("ok", 200, TRUE, Completion(PyStr(c))) : c \in Contents }

\* the orders list(placeholders) can have: a set's iteration order is not
\* fixed
Orders(S) ==
    { f \in [1..Cardinality(S) -> S] : \A i, j \in 1..Cardinality(S) : f[i] = f[j] => i = j }

\* --------------------------------------------------------------------- state
VARIABLES
    pc,             \* position in the script run started by the Process button
    template_file,  \* st.file_uploader("Upload Template (.docx)")
    pdf_files,      \* st.file_uploader("Upload Photo Reports (.pdf)")
    pdf_text,       \* local of the handler
    placeholders,   \* local of the handler (a list)
    llm_ret,        \* what call_llm returned (history of field_values)
    field_values,   \* local of the handler
    filled_doc,     \* local of the handler: made = fill_template returned
    sent,           \* request bodies POSTed in this run, in order
    response,       \* how the completion service behaved in this run
    escaped,        \* the exception that ended the run, and the call it left
    ui              \* st.error / st.warning / st.success / download_button calls

vars == <<pc, template_file, pdf_files, pdf_text, placeholders, llm_ret,
          field_values, filled_doc, sent, response, escaped, ui>>

NoDoc == [made |-> FALSE, paras |-> <<>>]
NoEscape == [in |-> "none", exc |-> "none"]
NoResponse == Response("not called", 0, FALSE, PyNone)

\* the locals of a script run before the handler has assigned them
FreshRun ==
    /\ pc = "button"
    /\ pdf_text = ""
    /\ placeholders = <<>>
    /\ llm_ret = PyNone
    /\ field_values = PyNone
    /\ filled_doc = NoDoc
    /\ sent = <<>>
    /\ response = NoResponse
    /\ escaped = NoEscape
    /\ ui = <<>>

Init ==
    /\ template_file \in TemplateUploads
    /\ pdf_files \in PdfUploads
    /\ FreshRun

\* `if not template_file or not pdf_files: st.error(...)`
MissingUpload ==
    /\ pc = "button"
    /\ ~template_file.present \/ pdf_files = <<>>
    /\ ui' = Append(ui, "error: upload both")
    /\ pc' = "done"
    /\ UNCHANGED <<template_file, pdf_files, pdf_text, placeholders, llm_ret,
                   field_values, filled_doc, sent, response, escaped>>

\* pdf_text = extract_pdf_text(pdf_files)
ExtractText ==
    /\ pc = "button"
    /\ template_file.present /\ pdf_files # <<>>
    /\ LET r == extract_pdf_text(pdf_files)
       IN  IF r.exc # "none"
           THEN /\ escaped' = [in |-> "extract_pdf_text", exc |-> r.exc]
                /\ pc' = "crashed"
                /\ UNCHANGED pdf_text
           ELSE /\ pdf_text' = r.text
                /\ pc' = "scan"
                /\ UNCHANGED escaped
    /\ UNCHANGED <<template_file, pdf_files, placeholders, llm_ret,
                   field_values, filled_doc, sent, response, ui>>

\* placeholders = extract_placeholders(template_file)
DetectPlaceholders ==
    /\ pc = "scan"
    /\ IF ~template_file.ok
       THEN /\ escaped' = [in |-> "extract_placeholders", exc |-> "BadZipFile"]
            /\ pc' = "crashed"
            /\ UNCHANGED placeholders
       ELSE /\ placeholders' \in Orders(extract_placeholders(template_file.paras))
            /\ pc' = "llm"
            /\ UNCHANGED escaped
    /\ UNCHANGED <<template_file, pdf_files, pdf_text, llm_ret, field_values,
                   filled_doc, sent, response, ui>>

\* field_values = call_llm(pdf_text, placeholders), for each behaviour of
\* the completion service
CallLLM ==
    /\ pc = "llm"
    /\ \E resp \in Responses :
         LET r == call_llm(pdf_text, placeholders, resp)
         IN  /\ response' = resp
             /\ sent' = sent \o [i \in 1..r.posts |-> r.sent]
             /\ ui' = ui \o r.ui
             /\ IF r.exc # "none"
                THEN /\ escaped' = [in |-> "call_llm", exc |-> r.exc]
                     /\ pc' = "crashed"
                     /\ UNCHANGED <<llm_ret, field_values>>
                ELSE /\ llm_ret' = r.ret
                     /\ field_values' = r.ret
                     /\ pc' = "check"
                     /\ UNCHANGED escaped
    /\ UNCHANGED <<template_file, pdf_files, pdf_text, placeholders, filled_doc>>

\* `if not field_values: st.warning(...); field_values = mock_data()`, then
\* st.success(...)
CheckFieldValues ==
    /\ pc = "check"
    /\ field_values' = select_field_values(field_values)
    /\ ui' = ui \o (IF ~Truthy(field_values) THEN <<"warning: using mock data">> ELSE <<>>)
                \o <<"success">>
    /\ pc' = "fill"
    /\ UNCHANGED <<template_file, pdf_files, pdf_text, placeholders, llm_ret,
                   filled_doc, sent, response, escaped>>

\* filled_doc = fill_template(template_file, field_values), then
\* st.download_button(...)
FillTemplate ==
    /\ pc = "fill"
    /\ LET r == fill_template(template_file.paras, field_values)
       IN  IF r.exc # "none"
           THEN /\ escaped' = [in |-> "fill_template", exc |-> r.exc]
                /\ pc' = "crashed"
                /\ UNCHANGED <<filled_doc, ui>>
           ELSE /\ filled_doc' = [made |-> TRUE, paras |-> r.paras]
                /\ ui' = Append(ui, "download: filled_report.docx")
                /\ pc' = "done"
                /\ UNCHANGED escaped
    /\ UNCHANGED <<template_file, pdf_files, pdf_text, placeholders, llm_ret,
                   field_values, sent, response>>

Next ==
    \/ MissingUpload
    \/ ExtractText
    \/ DetectPlaceholders
    \/ CallLLM
    \/ CheckFieldValues
    \/ FillTemplate

Spec == Init /\ [][Next]_vars

\* ------------------------------------------- pure-function specification
\* extract_placeholders and fill_template applied to every template and
\* mapping of the bounded sets below
Alphabet == {"[", "]", " ", "A", "B"}

RECURSIVE Strings(_)
Strings(n) ==
    IF n = 0 THEN {""}
    ELSE LET shorter == Strings(n - 1)
         IN  shorter \cup { s \o c : s \in shorter, c \in Alphabet }

PureTemplates ==
    { <<s>> : s \in Strings(MaxParaLen) }
        \cup { <<s, t>> : s \in Strings(MaxParaLen - 3), t \in Strings(MaxParaLen - 3) }

PureKeys == {"A", "B"}
PureValues == {"", "x", "[B]"}

\* the str -> str dicts over PureKeys, in every insertion order
PureMappings ==
    { PyDict(<<>>) }
        \cup { PyDict(<< <<k, PyStr(v)>> >>) : k \in PureKeys, v \in PureValues }
        \cup { PyDict(<< <<k1, PyStr(v1)>>, <<k2, PyStr(v2)>> >>) :
                 <<k1, v1, k2, v2>> \in
                   { q \in PureKeys \X PureValues \X PureKeys \X PureValues : q[1] # q[3] } }

InitPure ==
    /\ template_file \in { Template(p) : p \in PureTemplates }
    /\ field_values \in PureMappings
    /\ pdf_files = <<>>
    /\ pc = "pure_scan"
    /\ pdf_text = ""
    /\ placeholders = <<>>
    /\ llm_ret = PyNone
    /\ filled_doc = NoDoc
    /\ sent = <<>>
    /\ response = NoResponse
    /\ escaped = NoEscape
    /\ ui = <<>>

\* placeholders = extract_placeholders(template_file)
PureScan ==
    /\ pc = "pure_scan"
    /\ placeholders' \in Orders(extract_placeholders(template_file.paras))
    /\ pc' = "pure_fill"
    /\ UNCHANGED <<template_file, pdf_files, pdf_text, llm_ret, field_values,
                   filled_doc, sent, response, escaped, ui>>

\* filled_doc = fill_template(template_file, field_values)
PureFill ==
    /\ pc = "pure_fill"
    /\ LET r == fill_template(template_file.paras, field_values)
       IN  filled_doc' = [made |-> r.exc = "none", paras |-> r.paras]
    /\ pc' = "pure_done"
    /\ UNCHANGED <<template_file, pdf_files, pdf_text, placeholders, llm_ret,
                   field_values, sent, response, escaped, ui>>

NextPure == PureScan \/ PureFill

SpecPure == InitPure /\ [][NextPure]_vars

\* ------------------------------------------------------------------ claims
\* call_llm has returned or raised in this run
AfterCall == response # NoResponse
\* the run has passed `if not field_values`
AfterCheck == AfterCall /\ escaped.in # "call_llm" /\ pc # "check"
\* the run has ended, one way or the other
Ended == pc \in {"done", "crashed"}

\* C1: once extract_pdf_text and extract_placeholders have succeeded (the
\* run reached call_llm), no exception escapes from call_llm or
\* fill_template, and the run ends with a filled document, whatever the
\* completion service did.
C1_AlwaysFilled ==
    AfterCall =>
        /\ escaped.in \notin {"call_llm", "fill_template"}
        /\ Ended => filled_doc.made

\* the four failure cases of C2, told apart by the response alone
TransportFailed(r) == r.transport # "ok"
NonSuccessStatus(r) == r.transport = "ok" /\ r.status # 200
LacksContent(r) ==
    /\ r.transport = "ok" /\ r.status = 200
    /\ \A c \in Contents : ~(r.is_json /\ r.json = Completion(PyStr(c)))
UnparseableContent(r) ==
    /\ r.transport = "ok" /\ r.status = 200 /\ r.is_json
    /\ \E c \in {"", "Sure! Here is the JSON you asked for"} :
         r.json = Completion(PyStr(c))
FailureCase(r) ==
    TransportFailed(r) \/ NonSuccessStatus(r) \/ LacksContent(r) \/ UnparseableContent(r)

\* C2: in each of the four failure cases (transport failure, non-success
\* status, body without choices[0].message.content, content that is not
\* JSON) call_llm raises nothing and returns exactly the empty mapping.
C2_FailureReturnsEmpty ==
    (AfterCall /\ FailureCase(response)) =>
        /\ escaped.in # "call_llm"
        /\ llm_ret = PyDict(<<>>)

\* C2 witness: the service answered 401 and call_llm returned {}
C2_Witness ==
    /\ pc = "check"
    /\ response.status = 401
    /\ llm_ret = PyDict(<<>>)
    /\ ui = <<"error: HTTP error">>

\* a flat mapping from strs to strs
IsFlatStrMapping(v) ==
    /\ v.type = "dict"
    /\ \A i \in 1..Len(v.items) : v.items[i][2].type = "str"

\* C3: a non-empty result of call_llm is always a flat str -> str mapping;
\* completion content that is valid JSON of any other shape (a list, a
\* string, a number, an object with a non-string value) yields the empty
\* mapping instead.
C3_ReturnsFlatMapping ==
    (AfterCall /\ escaped.in # "call_llm") =>
        (llm_ret = PyDict(<<>>) \/ (Truthy(llm_ret) => IsFlatStrMapping(llm_ret)))

\* the completion service errored (transport failure or error status)
ServiceErrored(r) == TransportFailed(r) \/ NonSuccessStatus(r)

\* C4: the mapping passed to fill_template is exactly what call_llm returned
\* when that is a non-empty mapping, and exactly mock_data() when call_llm
\* returned the empty mapping, never a mix; when the service errors the
\* final output is fill_template(T, mock_data()).
C4_NoPartialMerge ==
    AfterCheck =>
        /\ field_values \in {llm_ret, mock_data}
        /\ llm_ret = PyDict(<<>>) => field_values = mock_data
        /\ (llm_ret.type = "dict" /\ llm_ret.items # <<>>) => field_values = llm_ret
        /\ (Ended /\ ServiceErrored(response)) =>
               /\ filled_doc.made
               /\ filled_doc.paras = fill_template(template_file.paras, mock_data).paras

\* C4 witness: the connection failed and the template came out filled with
\* the mock data
C4_Witness ==
    /\ pc = "done"
    /\ response.transport = "ConnectionError"
    /\ llm_ret = PyDict(<<>>)
    /\ template_file.paras = <<"Insured: [INSURED_NAME]", "Loss date: [DATE_LOSS]">>
    /\ filled_doc = [made |-> TRUE,
                     paras |-> <<"Insured: Richard Daly", "Loss date: 2024-11-13">>]

\* C9 as stated: the instruction sent to the service never exceeds the
\* 6000-character cap.
C9_PayloadWithinCap ==
    \A i \in 1..Len(sent) : Len(sent[i].content) <= TEXT_CAP

\* the part of an instruction between the fixed wording around the PDF text
EmbeddedText(prompt) ==
    SubSeq(prompt,
           Len(PromptHead) + Len(list_repr(placeholders)) + Len(PromptMid) + 1,
           Len(prompt) - Len(PromptTail))

\* C9 as amended: the extracted text embedded in the instruction is the
\* first min(len, 6000) characters of pdf_text, so that part never exceeds
\* the cap; the instruction as a whole is longer by the 253 characters of
\* fixed wording and the rendered placeholder list.
C9_EmbeddedTextWithinCap ==
    \A i \in 1..Len(sent) :
        LET p == sent[i].content
            e == EmbeddedText(p)
        IN  /\ Len(e) <= TEXT_CAP
            /\ e = SubSeq(pdf_text, 1, Len(e))
            /\ Len(pdf_text) > TEXT_CAP => Len(e) = TEXT_CAP
            /\ Len(pdf_text) <= TEXT_CAP => e = pdf_text
            /\ Len(p) = 253 + Len(list_repr(placeholders)) + Len(e)
            /\ p = PromptHead \o list_repr(placeholders) \o PromptMid \o e \o PromptTail

\* C9 witness: a text of more than 6000 characters was sent, cut to 6000
C9_Witness ==
    /\ Len(sent) = 1
    /\ Len(pdf_text) > TEXT_CAP
    /\ Len(EmbeddedText(sent[1].content)) = TEXT_CAP
    /\ Len(sent[1].content) > TEXT_CAP

\* C10: a run POSTs to the completion service at most once, never before
\* text extraction and placeholder scanning are done, and exactly once by
\* the time it has got past call_llm; a failed attempt is not repeated.
C10_SinglePost ==
    /\ Len(sent) <= 1
    /\ Len(sent) = 1 =>
          /\ pc \notin {"button", "scan", "llm"}
          /\ escaped.in \notin {"extract_pdf_text", "extract_placeholders"}
          /\ \E o \in Orders(extract_placeholders(template_file.paras)) : placeholders = o
          /\ pdf_text = extract_pdf_text(pdf_files).text
    /\ (pc \in {"check", "fill"} \/ AfterCall \/ filled_doc.made) => Len(sent) = 1

\* C10 witness: the request timed out, was not repeated, and the run ended
\* on the fallback
C10_Witness ==
    /\ pc = "done"
    /\ response.transport = "Timeout"
    /\ Len(sent) = 1
    /\ field_values = mock_data
    /\ filled_doc.made

\* occurrences of sub in s, overlapping ones included
Count(s, sub) ==
    Cardinality({ i \in 1..(Len(s) - Len(sub) + 1) : SubSeq(s, i, i + Len(sub) - 1) = sub })

\* C5: every placeholder of the template that is not a key of the mapping
\* still stands as `[p]` in the filled paragraph wherever it stood in the
\* template paragraph.
C5_UnmatchedLeftVerbatim ==
    (pc = "pure_done" /\ filled_doc.made) =>
        \A p \in extract_placeholders(template_file.paras) \ Keys(field_values) :
            \A i \in 1..Len(template_file.paras) :
                Count(filled_doc.paras[i], "[" \o p \o "]")
                    >= Count(template_file.paras[i], "[" \o p \o "]")

\* C6: iterating the mapping's entries in any other order gives the same
\* paragraph texts.
C6_OrderIndependent ==
    pc = "pure_done" =>
        \A o \in Orders({ field_values.items[i] : i \in 1..Len(field_values.items) }) :
            fill_template(template_file.paras, PyDict(o)).paras = filled_doc.paras

\* d without its entry for key k
Without(d, k) == PyDict(SelectSeq(d.items, LAMBDA e : e[1] # k))

\* C7: removing a key whose bracketed form occurs in no paragraph of the
\* template does not change the filled paragraphs.
C7_InertKeys ==
    pc = "pure_done" =>
        \A k \in Keys(field_values) :
            (\A i \in 1..Len(template_file.paras) :
                 ~Contains(template_file.paras[i], "[" \o k \o "]"))
            => fill_template(template_file.paras, Without(field_values, k)).paras
                   = filled_doc.paras

\* the names the placeholder grammar of C8 gives: tokens `[name]` with a
\* non-empty name and no bracket inside
GrammarNames(paras) ==
    { SubSeq(w, 2, Len(w) - 1) :
        w \in { x \in UNION { split(paras[i]) : i \in 1..Len(paras) } :
                  /\ Len(x) >= 3
                  /\ SubSeq(x, 1, 1) = "[" /\ SubSeq(x, Len(x), Len(x)) = "]"
                  /\ \A j \in 2..(Len(x) - 1) : SubSeq(x, j, j) \notin {"[", "]"} } }

\* C8: extract_placeholders returns exactly the names of the tokens `[name]`
\* with one bracket removed at each end; no name is empty and a token with
\* interior brackets gives none.
C8_ExactGrammar ==
    pc \in {"pure_fill", "pure_done"} =>
        { placeholders[i] : i \in 1..Len(placeholders) }
            = GrammarNames(template_file.paras)

====
